---- MODULE Spec2Model ----
(***************************************************************************)
(* A model of lib/nimbase.h, the runtime compatibility header of Nimrod:   *)
(* the call-frame chain (TFrame / framePtr), the float64ToInt32 bias       *)
(* trick, the preprocessor resolution of calling conventions and integer   *)
(* types, and the memory helpers (zeroMem, equalMem, STRING_LITERAL,       *)
(* ALLOC_0).                                                               *)
(***************************************************************************)
EXTENDS Integers, Sequences, FiniteSets, TLC

(***************************************************************************)
(* Bounds of the model.                                                    *)
(***************************************************************************)
NThreads == 2
MaxDepth == 3
MaxDepthMT == 2
MaxIntPart == 3
MaxEdge == 1
MaxFracStep == 4
MaxRegion == 3

(***************************************************************************)
(* The state.                                                              *)
(***************************************************************************)
VARIABLES
    framePtr,   \* the current-frame slot (line 376)
    mem,        \* the storage of the TFrame locals, by address
    stack,      \* the activations of each thread, outermost first
    active,     \* the threads that run
    crashed,    \* an undefined read of a prev field has happened
    lastRet,    \* the call that returned last, and the slot at its entry
    fx,         \* the argument of float64ToInt32
    bigEndian,  \* the byte order of the target (NIM_BIG_ENDIAN)
    fres,       \* the result of float64ToInt32
    fpc,        \* "call" before the conversion, "done" after it
    cfg,        \* the target: predefined macros, math.h, data model
    macros,     \* the bodies each macro was defined with, in order
    typedefs,   \* the C types each type name was defined as, in order
    lrintImpl,  \* what lrint and lrintf resolve to
    errors,     \* the #error diagnostics issued
    hpc,        \* the section of the header to process next
    buf,        \* the bytes of the buffer object
    bufKind,    \* how the buffer came to be
    lastOp,     \* the last operation on the buffer
    eq          \* the last call of equalMem

frameVars == <<framePtr, mem, stack, active, crashed, lastRet>>

floatVars == <<fx, bigEndian, fres, fpc>>

hdrVars == <<cfg, macros, typedefs, lrintImpl, errors, hpc>>

memVars == <<buf, bufKind, lastOp, eq>>

vars == <<frameVars, floatVars, hdrVars, memVars>>

(***************************************************************************)
(* Part 1: the call-frame record and the current-frame slot.               *)
(***************************************************************************)
\* #define NIM_NIL ((void*)0)
NIM_NIL == 0

Threads == 1..NThreads

\* A TFrame is a local variable of the instrumented procedure: its address is
\* the place of the activation on the C stack of its thread.
Addr(t, d) == (t - 1) * MaxDepth + d

Addrs == {Addr(t, d) : t \in Threads, d \in 1..MaxDepth}

Ptrs == Addrs \cup {NIM_NIL}

ProcNames == {"p", "q"}

\* The deepest nesting the model follows: MaxDepth with one call stack.
DepthBound == IF Cardinality(active) = 1 THEN MaxDepth ELSE MaxDepthMT

\* struct TFrame { TFrame* prev; NCSTRING procname; NS line; NCSTRING filename;
\* NS len; }: the fields the chain needs, and whether the storage is live.
TFrame(prev, procname) == [live |-> TRUE, prev |-> prev, procname |-> procname]

DeadFrame == [live |-> FALSE, prev |-> NIM_NIL, procname |-> "none"]

ExitKinds == {"normal", "early", "error"}

\* a->prev is undefined when a is NIM_NIL or the storage of a procedure that
\* has returned.
Undefined(a) == a = NIM_NIL \/ ~mem[a].live

\* The values a read of a->prev can yield: the field of a live frame, and any
\* pointer when the read is undefined.
ReadPrev(a) == IF Undefined(a) THEN Ptrs ELSE {mem[a].prev}

\* The slot a thread uses: line 376 declares one process-wide variable.
SlotOf(t) == framePtr

\* Entry of an instrumented procedure, first statement: F.prev = framePtr.
PushPrev(t, procname) ==
    /\ ~crashed
    /\ t \in active
    /\ Len(stack[t]) < DepthBound
    /\ Len(stack[t]) > 0 => stack[t][Len(stack[t])].pc \in {"linked", "plain"}
    /\ LET a == Addr(t, Len(stack[t]) + 1) IN
         /\ mem' = [mem EXCEPT ![a] = TFrame(SlotOf(t), procname)]
         /\ stack' = [stack EXCEPT ![t] =
                        Append(@, [instr |-> TRUE, pc |-> "prevset",
                                   entry |-> SlotOf(t)])]
    /\ lastRet' = [valid |-> FALSE, V |-> NIM_NIL, kind |-> "none", t |-> t]
    /\ UNCHANGED <<framePtr, active, crashed>>
    /\ UNCHANGED <<floatVars, hdrVars, memVars>>

\* An entry instrumentation that stores the frame's prev and never links it.
LinkTarget_NotLinked(t) == SlotOf(t)

\* The address the entry instrumentation stores in the slot: &F.
LinkTarget(t) == Addr(t, Len(stack[t]))

\* Entry of an instrumented procedure, second statement: framePtr = &F.
PushLink(t) ==
    /\ ~crashed
    /\ t \in active
    /\ Len(stack[t]) > 0
    /\ stack[t][Len(stack[t])].pc = "prevset"
    /\ framePtr' = LinkTarget(t)
    /\ stack' = [stack EXCEPT ![t][Len(stack[t])].pc = "linked"]
    /\ lastRet' = [valid |-> FALSE, V |-> NIM_NIL, kind |-> "none", t |-> t]
    /\ UNCHANGED <<mem, active, crashed>>
    /\ UNCHANGED <<floatVars, hdrVars, memVars>>

\* A call of a procedure compiled without the instrumentation.
CallPlain(t) ==
    /\ ~crashed
    /\ t \in active
    /\ Len(stack[t]) < DepthBound
    /\ Len(stack[t]) > 0 => stack[t][Len(stack[t])].pc \in {"linked", "plain"}
    /\ stack' = [stack EXCEPT ![t] =
                   Append(@, [instr |-> FALSE, pc |-> "plain",
                              entry |-> SlotOf(t)])]
    /\ lastRet' = [valid |-> FALSE, V |-> NIM_NIL, kind |-> "none", t |-> t]
    /\ UNCHANGED <<framePtr, mem, active, crashed>>
    /\ UNCHANGED <<floatVars, hdrVars, memVars>>

\* An exit instrumentation that leaves the frame linked on the error path.
PopTarget_SkipOnError(kind, fp) == IF kind = "error" THEN {fp} ELSE ReadPrev(fp)

\* What an exit path of kind `kind` stores in the slot that holds fp:
\* framePtr = framePtr->prev, on every exit path.
PopTarget(kind, fp) == ReadPrev(fp)

\* The pop of an exit path of an instrumented procedure.
PopFrame(t, kind) ==
    /\ ~crashed
    /\ t \in active
    /\ Len(stack[t]) > 0
    /\ stack[t][Len(stack[t])].pc = "linked"
    /\ \E v \in PopTarget(kind, SlotOf(t)) : framePtr' = v
    /\ crashed' = Undefined(SlotOf(t))
    /\ stack' = [stack EXCEPT ![t][Len(stack[t])].pc = kind]
    /\ lastRet' = [valid |-> FALSE, V |-> NIM_NIL, kind |-> "none", t |-> t]
    /\ UNCHANGED <<mem, active>>
    /\ UNCHANGED <<floatVars, hdrVars, memVars>>

\* The return of a procedure: its activation, and the storage of its frame, end.
Leave(t) ==
    /\ ~crashed
    /\ t \in active
    /\ Len(stack[t]) > 0
    /\ stack[t][Len(stack[t])].pc \in ExitKinds \cup {"plain"}
    /\ LET top == stack[t][Len(stack[t])] IN
         /\ mem' = [mem EXCEPT ![Addr(t, Len(stack[t]))] = DeadFrame]
         /\ lastRet' = [valid |-> TRUE, V |-> top.entry, kind |-> top.pc, t |-> t]
    /\ stack' = [stack EXCEPT ![t] = SubSeq(@, 1, Len(@) - 1)]
    /\ UNCHANGED <<framePtr, active, crashed>>
    /\ UNCHANGED <<floatVars, hdrVars, memVars>>

InitFrames(act) ==
    /\ framePtr = NIM_NIL
    /\ mem = [a \in Addrs |-> DeadFrame]
    /\ stack = [t \in Threads |-> <<>>]
    /\ active = act
    /\ crashed = FALSE
    /\ lastRet = [valid |-> FALSE, V |-> NIM_NIL, kind |-> "none", t |-> 1]

NextFrames ==
    \E t \in Threads :
       \/ \E p \in ProcNames : PushPrev(t, p)
       \/ PushLink(t)
       \/ CallPlain(t)
       \/ \E k \in ExitKinds : PopFrame(t, k)
       \/ Leave(t)

(***************************************************************************)
(* Part 2: float64ToInt32, the bias trick.  A double is held as its        *)
(* IEEE-754 fields, the 52-bit fraction as limbs of 4, 16, 16 and 16       *)
(* bits; a 32-bit word as its two 16-bit halves.                           *)
(***************************************************************************)
\* The inputs are the doubles ip + fp / 2^FracBits, 0 <= fp < 2^FracBits.
FracBits == 18

FracOne == 2^FracBits

W16 == 2^16

\* The integer parts tried: around zero and around both ends of the range of
\* a 16.16 fixed-point number.
IntParts ==
    (-MaxIntPart..MaxIntPart)
      \cup {-32768 + d : d \in -1..MaxEdge} \cup {32767 - d : d \in -1..MaxEdge}

\* The fractions tried: around 0, around one half and up to 1.
FracParts ==
    (0..MaxFracStep)
      \cup {FracOne \div 2 + d : d \in -MaxFracStep..MaxFracStep}
      \cup {FracOne - 1 - d : d \in 0..MaxFracStep}

\* val + 68719476736.0*1.5 in IEEE-754 double arithmetic, round to nearest,
\* ties to even.  The bias is 1.5 * 2^20 * 2^16 and for |val| < 2^35 the sum
\* lies in [2^36, 2^37), where one unit in the last place is 2^-16.
BiasHi == 1572864

AddBias(x) ==
    LET step == FracOne \div W16                \* units of fp in one ulp
        q    == x.fp \div step
        rem  == x.fp % step
        up   == \/ 2 * rem > step
                \/ 2 * rem = step /\ q % 2 = 1  \* a tie goes to the even fraction
        r0   == IF up THEN q + 1 ELSE q
        c0   == r0 \div W16
        r1   == (x.ip % W16) + c0
        c1   == r1 \div W16
        hi   == BiasHi + (x.ip \div W16) + c1   \* the sum in units of 2^16
    IN  [sign |-> 0,
         exp  |-> 1023 + 36,
         frac |-> <<(hi - 2^20) \div W16, (hi - 2^20) % W16, r1 % W16, r0 % W16>>]

\* The two 32-bit words of the pattern of a double, most significant first.
HighWord(d) == [h |-> d.sign * 2^15 + d.exp * 2^4 + d.frac[1], l |-> d.frac[2]]

LowWord(d) == [h |-> d.frac[3], l |-> d.frac[4]]

\* The double as an array of two 32-bit words in memory, by byte order.
WordsInMemory(d, big) ==
    IF big THEN <<HighWord(d), LowWord(d)>> ELSE <<LowWord(d), HighWord(d)>>

\* An index that ignores the byte order.
NIM_IMAN_LittleOnly(big) == 0

\* #ifdef NIM_BIG_ENDIAN: NIM_IMAN 1, else NIM_IMAN 0.
NIM_IMAN(big) == IF big THEN 1 ELSE 0

\* The value of a 32-bit word read as NS32 (two's complement).
AsNS32(w) == (IF w.h >= 2^15 THEN w.h - W16 ELSE w.h) * W16 + w.l

\* v >> 16 on a signed 32-bit value: the arithmetic shift of the compilers
\* the header names.
Sar16(v) == v \div W16

\* static N_INLINE(NS32, float64ToInt32)(double val)
float64ToInt32(x, big) ==
    Sar16(AsNS32(WordsInMemory(AddBias(x), big)[NIM_IMAN(big) + 1]))

\* The native conversion (lrint in the default rounding mode): the nearest
\* integer, a tie to the even one.
RoundNearestEven(x) ==
    IF 2 * x.fp < FracOne THEN x.ip
    ELSE IF 2 * x.fp > FracOne THEN x.ip + 1
    ELSE IF x.ip % 2 = 0 THEN x.ip ELSE x.ip + 1

\* floor(x + 2^-17).
FloorAfterFixed(x) == IF x.fp + FracOne \div 2^17 >= FracOne THEN x.ip + 1 ELSE x.ip

InitFloat ==
    /\ fx \in [ip : IntParts, fp : FracParts]
    /\ bigEndian \in BOOLEAN
    /\ fres = 0
    /\ fpc = "call"

\* A call float64ToInt32(fx).
Convert ==
    /\ fpc = "call"
    /\ fres' = float64ToInt32(fx, bigEndian)
    /\ fpc' = "done"
    /\ UNCHANGED <<fx, bigEndian>>
    /\ UNCHANGED <<frameVars, hdrVars, memVars>>


\* One call stack: the single-threaded target.
(***************************************************************************)
(* Part 3: the preprocessor's resolution of the header for one target      *)
(* configuration, section by section in the order of the file.             *)
(***************************************************************************)
\* The compiler identities the header tests (lines 209-217).
Compilers ==
    {"__BORLANDC__", "_MSC_VER", "__WATCOMC__", "__LCC__", "__GNUC__",
     "__DMC__", "__POCC__"}

WindowsPreds == {"WIN32", "_WIN32"}

\* The macros the header defines with #define.
MacroNames ==
    {"N_INLINE", "HAVE_LRINT", "HAVE_LRINTF", "IL64",
     "N_CDECL", "N_STDCALL", "N_SYSCALL", "N_FASTCALL", "N_SAFECALL",
     "N_CDECL_PTR", "N_STDCALL_PTR", "N_SYSCALL_PTR", "N_FASTCALL_PTR",
     "N_SAFECALL_PTR", "N_LIB_EXPORT", "N_LIB_IMPORT",
     "N_NOCONV", "N_NOCONV_PTR", "N_CLOSURE", "N_CLOSURE_PTR",
     "N_NIMCALL", "N_NIMCALL_PTR", "HAVE_STDINT_H", "lrint", "lrintf"}

TypeNames ==
    {"NS8", "NS16", "NS32", "NS64", "NU8", "NU16", "NU32", "NU64", "NS", "NU"}

\* defined(m): predefined by the toolchain or the build, or defined above.
Defined(m) == m \in cfg.predef \/ (m \in MacroNames /\ macros[m] # <<>>)

AnyDefined(ms) == \E m \in ms : Defined(m)

RECURSIVE DefineAll(_, _)
\* The macro table after the #define directives of ds, each <<name, body>>;
\* every definition of a name is kept, in order.
DefineAll(tab, ds) ==
    IF ds = <<>> THEN tab
    ELSE DefineAll([tab EXCEPT ![ds[1][1]] = Append(@, ds[1][2])], Tail(ds))

\* A header whose last branch spells inline as the first one does.
InlineSpelling_NoOwnDefault ==
    IF AnyDefined({"__BORLANDC__", "_MSC_VER", "__WATCOMC__"})
      THEN "__inline rettype name"
    ELSE "inline rettype name"

\* Lines 14-31.
InlineSpelling ==
    IF AnyDefined({"__GNUC__", "__LCC__", "__POCC__"})
      THEN "inline rettype name"
    ELSE IF AnyDefined({"__BORLANDC__", "_MSC_VER"}) THEN "__inline rettype name"
    ELSE IF Defined("__DMC__") THEN "inline rettype name"
    ELSE IF Defined("__WATCOMC__") THEN "__inline rettype name"
    ELSE "rettype __inline name"

S_Inline ==
    /\ hpc = 1
    /\ macros' = DefineAll(macros, << <<"N_INLINE", InlineSpelling>> >>)
    /\ hpc' = 2
    /\ UNCHANGED <<cfg, typedefs, lrintImpl, errors>>
    /\ UNCHANGED <<frameVars, floatVars, memVars>>

\* Lines 33-35.
S_MscLrint ==
    /\ hpc = 2
    /\ macros' = IF Defined("_MSC_VER")
                 THEN DefineAll(macros, << <<"HAVE_LRINT", "1">> >>)
                 ELSE macros
    /\ hpc' = 3
    /\ UNCHANGED <<cfg, typedefs, lrintImpl, errors>>
    /\ UNCHANGED <<frameVars, floatVars, memVars>>

\* Lines 38-43.
S_IL64 ==
    /\ hpc = 3
    /\ macros' = DefineAll(macros,
                   << <<"IL64",
                        IF AnyDefined({"__GNUC__", "__LCC__", "__POCC__", "__DMC__"})
                        THEN "x##LL" ELSE "x">> >>)
    /\ hpc' = 4
    /\ UNCHANGED <<cfg, typedefs, lrintImpl, errors>>
    /\ UNCHANGED <<frameVars, floatVars, memVars>>

\* Lines 48-61.
ConvWindows ==
    << <<"N_CDECL", "rettype __cdecl name">>,
       <<"N_STDCALL", "rettype __stdcall name">>,
       <<"N_SYSCALL", "rettype __syscall name">>,
       <<"N_FASTCALL", "rettype __fastcall name">>,
       <<"N_SAFECALL", "rettype __safecall name">>,
       <<"N_CDECL_PTR", "rettype (__cdecl *name)">>,
       <<"N_STDCALL_PTR", "rettype (__stdcall *name)">>,
       <<"N_SYSCALL_PTR", "rettype (__syscall *name)">>,
       <<"N_FASTCALL_PTR", "rettype (__fastcall *name)">>,
       <<"N_SAFECALL_PTR", "rettype (__safecall *name)">>,
       <<"N_LIB_EXPORT", "__declspec(dllexport)">>,
       <<"N_LIB_IMPORT", "__declspec(dllimport)">> >>

\* An #else branch that gives the import linkage no spelling of its own.
ConvOther_ImportAsExport ==
    << <<"N_CDECL", "rettype name">>,
       <<"N_STDCALL", "rettype name">>,
       <<"N_SYSCALL", "rettype name">>,
       <<"N_FASTCALL", "rettype name">>,
       <<"N_SAFECALL", "rettype name">>,
       <<"N_CDECL_PTR", "rettype (*name)">>,
       <<"N_STDCALL_PTR", "rettype (*name)">>,
       <<"N_SYSCALL_PTR", "rettype (*name)">>,
       <<"N_FASTCALL_PTR", "rettype (*name)">>,
       <<"N_SAFECALL_PTR", "rettype (*name)">>,
       <<"N_LIB_EXPORT", "">>,
       <<"N_LIB_IMPORT", "">> >>

\* Lines 63-76.
ConvOther ==
    << <<"N_CDECL", "rettype name">>,
       <<"N_STDCALL", "rettype name">>,
       <<"N_SYSCALL", "rettype name">>,
       <<"N_FASTCALL", "rettype name">>,
       <<"N_SAFECALL", "rettype name">>,
       <<"N_CDECL_PTR", "rettype (*name)">>,
       <<"N_STDCALL_PTR", "rettype (*name)">>,
       <<"N_SYSCALL_PTR", "rettype (*name)">>,
       <<"N_FASTCALL_PTR", "rettype (*name)">>,
       <<"N_SAFECALL_PTR", "rettype (*name)">>,
       <<"N_LIB_EXPORT", "">>,
       <<"N_LIB_IMPORT", "extern">> >>

\* Line 47: #if defined(WIN32) || defined(_WIN32).
IsWindows == Defined("WIN32") \/ Defined("_WIN32")

S_CallConv ==
    /\ hpc = 4
    /\ macros' = DefineAll(macros, IF IsWindows THEN ConvWindows ELSE ConvOther)
    /\ hpc' = 5
    /\ UNCHANGED <<cfg, typedefs, lrintImpl, errors>>
    /\ UNCHANGED <<frameVars, floatVars, memVars>>

\* A header that forgets the pointer spelling of closures.
ConvAlways_NoClosurePtr ==
    << <<"N_NOCONV", "rettype name">>,
       <<"N_NOCONV_PTR", "rettype (*name)">>,
       <<"N_CLOSURE", "rettype name">> >>

\* Lines 79-85.
ConvAlways ==
    << <<"N_NOCONV", "rettype name">>,
       <<"N_NOCONV_PTR", "rettype (*name)">>,
       <<"N_CLOSURE", "rettype name">>,
       <<"N_CLOSURE_PTR", "rettype (*name)">> >>

S_NoConvClosure ==
    /\ hpc = 5
    /\ macros' = DefineAll(macros, ConvAlways)
    /\ hpc' = 6
    /\ UNCHANGED <<cfg, typedefs, lrintImpl, errors>>
    /\ UNCHANGED <<frameVars, floatVars, memVars>>

\* Lines 88-96.
S_NimCall ==
    /\ hpc = 6
    /\ macros' =
         DefineAll(macros,
           IF AnyDefined({"__BORLANDC__", "__WATCOMC__", "__POCC__", "_MSC_VER"})
           THEN << <<"N_NIMCALL", "rettype __fastcall name">>,
                   <<"N_NIMCALL_PTR", "rettype (__fastcall *name)">> >>
           ELSE << <<"N_NIMCALL", "rettype name">>,
                   <<"N_NIMCALL_PTR", "rettype (*name)">> >>)
    /\ hpc' = 7
    /\ UNCHANGED <<cfg, typedefs, lrintImpl, errors>>
    /\ UNCHANGED <<frameVars, floatVars, memVars>>

\* Lines 139-144.
S_HaveLrint ==
    /\ hpc = 7
    /\ macros' =
         IF \/ AnyDefined({"__LCC__", "__POCC__"})
            \/ Defined("__GNUC__") /\ Defined("WIN32")
         THEN DefineAll(macros, << <<"HAVE_LRINT", "">>, <<"HAVE_LRINTF", "">> >>)
         ELSE macros
    /\ hpc' = 8
    /\ UNCHANGED <<cfg, typedefs, lrintImpl, errors>>
    /\ UNCHANGED <<frameVars, floatVars, memVars>>

\* What #include <math.h> gives a name: the macro of the library when the
\* library makes it one, its function otherwise.
FromMath(f) == IF f \in cfg.mathMacros THEN "math.h macro" ELSE "math.h function"

\* Lines 191-196: #ifndef lrint / #define lrint(dbl) ((long int)(dbl)).
CastFallback(f) == IF f \in cfg.mathMacros THEN FromMath(f) ELSE "C cast"

\* Lines 146-198.
S_Lrint ==
    /\ hpc = 8
    /\ IF Defined("HAVE_LRINT") /\ Defined("HAVE_LRINTF")
       THEN /\ lrintImpl' = [lrint |-> FromMath("lrint"), lrintf |-> FromMath("lrintf")]
            /\ UNCHANGED macros
       ELSE IF /\ AnyDefined({"WIN32", "_WIN32", "__WIN32__"})
               /\ ~Defined("__BORLANDC__")
       THEN /\ lrintImpl' = [lrint |-> "inline fistp", lrintf |-> "inline fistp"]
            /\ UNCHANGED macros
       ELSE /\ lrintImpl' = [lrint |-> CastFallback("lrint"),
                             lrintf |-> CastFallback("lrintf")]
            /\ macros' = DefineAll(macros,
                 (IF "lrint" \in cfg.mathMacros THEN <<>>
                  ELSE << <<"lrint", "((long int)(dbl))">> >>)
                 \o (IF "lrintf" \in cfg.mathMacros THEN <<>>
                     ELSE << <<"lrintf", "((long int)(flt))">> >>))
    /\ hpc' = 9
    /\ UNCHANGED <<cfg, typedefs, errors>>
    /\ UNCHANGED <<frameVars, floatVars, memVars>>

\* Lines 220-227.
S_StdInt ==
    /\ hpc = 9
    /\ macros' =
         DefineAll(macros,
           (IF Defined("__STD_VERSION__ >= 199901")
            THEN << <<"HAVE_STDINT_H", "">> >> ELSE <<>>)
           \o (IF AnyDefined({"__LCC__", "__GNUC__", "__DMC__", "__POCC__"})
               THEN << <<"HAVE_STDINT_H", "">> >> ELSE <<>>))
    /\ hpc' = 10
    /\ UNCHANGED <<cfg, typedefs, lrintImpl, errors>>
    /\ UNCHANGED <<frameVars, floatVars, memVars>>

RECURSIVE TypedefAll(_, _)
\* The typedef table after the typedefs of ds, each <<name, C type>>.
TypedefAll(tab, ds) ==
    IF ds = <<>> THEN tab
    ELSE TypedefAll([tab EXCEPT ![ds[1][1]] = Append(@, ds[1][2])], Tail(ds))

\* Lines 257-264.
IntsStdint ==
    << <<"NS8", "int8_t">>, <<"NS16", "int16_t">>, <<"NS32", "int32_t">>,
       <<"NS64", "int64_t">>, <<"NU64", "uint64_t">>, <<"NU8", "uint8_t">>,
       <<"NU16", "uint16_t">>, <<"NU32", "uint32_t">> >>

\* Lines 267-275.
IntsInt64 ==
    << <<"NS8", "signed char">>, <<"NS16", "signed short int">>,
       <<"NS32", "signed int">>, <<"NU8", "unsigned char">>,
       <<"NU16", "unsigned short int">>, <<"NU64", "unsigned __int64">>,
       <<"NS64", "__int64">>, <<"NU32", "unsigned int">> >>

\* Lines 277-285.
IntsDefault ==
    << <<"NS8", "signed char">>, <<"NS16", "signed short int">>,
       <<"NS32", "signed int">>, <<"NU8", "unsigned char">>,
       <<"NU16", "unsigned short int">>, <<"NU64", "unsigned long long int">>,
       <<"NS64", "long long int">>, <<"NU32", "unsigned int">> >>

\* Lines 255-286.
S_IntTypes ==
    /\ hpc = 10
    /\ typedefs' =
         TypedefAll(typedefs,
           IF Defined("HAVE_STDINT_H") THEN IntsStdint
           ELSE IF AnyDefined({"__BORLANDC__", "__DMC__", "__WATCOMC__", "_MSC_VER"})
                THEN IntsInt64
           ELSE IntsDefault)
    /\ hpc' = 11
    /\ UNCHANGED <<cfg, macros, lrintImpl, errors>>
    /\ UNCHANGED <<frameVars, floatVars, memVars>>

\* Line 288: defined(_MSC_VER) && (defined(AMD64) || defined(_M_AMD64)).
WordIsLongLong == Defined("_MSC_VER") /\ (Defined("AMD64") \/ Defined("_M_AMD64"))

\* Lines 288-295.
S_Word ==
    /\ hpc = 11
    /\ typedefs' =
         TypedefAll(typedefs,
           IF WordIsLongLong
           THEN << <<"NU", "unsigned long long int">>, <<"NS", "signed long long int">> >>
           ELSE << <<"NU", "unsigned long int">>, <<"NS", "signed long int">> >>)
    /\ hpc' = 12
    /\ UNCHANGED <<cfg, macros, lrintImpl, errors>>
    /\ UNCHANGED <<frameVars, floatVars, memVars>>

\* The data models: the bits of int, long and a pointer.
DataModels ==
    [ILP32 |-> [int |-> 32, long |-> 32, ptr |-> 32],
     LP64  |-> [int |-> 32, long |-> 64, ptr |-> 64],
     LLP64 |-> [int |-> 32, long |-> 32, ptr |-> 64],
     LP32  |-> [int |-> 16, long |-> 32, ptr |-> 32]]

\* The width in bits of a C type on the data model dm.
TypeBits(ty, dm) ==
    CASE ty \in {"int8_t", "uint8_t", "signed char", "unsigned char"} -> 8
      [] ty \in {"int16_t", "uint16_t", "signed short int", "unsigned short int"} -> 16
      [] ty \in {"int32_t", "uint32_t"} -> 32
      [] ty \in {"signed int", "unsigned int"} -> DataModels[dm].int
      [] ty \in {"signed long int", "unsigned long int"} -> DataModels[dm].long
      [] ty \in {"int64_t", "uint64_t", "__int64", "unsigned __int64",
                 "long long int", "unsigned long long int",
                 "signed long long int"} -> 64

InitHdr(preds, mathMacros, models) ==
    /\ cfg \in [predef : SUBSET preds, mathMacros : SUBSET mathMacros, dm : models]
    /\ macros = [m \in MacroNames |-> <<>>]
    /\ AnyDefined({"AMD64", "_M_AMD64"}) => DataModels[cfg.dm].ptr = 64
    /\ typedefs = [t \in TypeNames |-> <<>>]
    /\ lrintImpl = [lrint |-> "none", lrintf |-> "none"]
    /\ errors = <<>>
    /\ hpc = 1

NextHdr ==
    \/ S_Inline
    \/ S_MscLrint
    \/ S_IL64
    \/ S_CallConv
    \/ S_NoConvClosure
    \/ S_NimCall
    \/ S_HaveLrint
    \/ S_Lrint
    \/ S_StdInt
    \/ S_IntTypes
    \/ S_Word

HdrDone == hpc = 12

(***************************************************************************)
(* Part 4: the buffer header and the memory helpers.  Memory is bytes; an  *)
(* NS field is sizeof(long) bytes in the byte order of the target.         *)
(***************************************************************************)
\* sizeof(NS): NS is signed long int (line 294), on the ILP32 data model.
NSBytes == DataModels["ILP32"].long \div 8

RECURSIVE EncodeLE(_, _)
\* The n bytes of the two's complement of v, least significant first.
EncodeLE(v, n) == IF n = 0 THEN <<>> ELSE <<v % 256>> \o EncodeLE(v \div 256, n - 1)

Reverse(q) == [i \in 1..Len(q) |-> q[Len(q) + 1 - i]]

\* The bytes of an NS of value v in memory.
EncodeNS(v, big) == IF big THEN Reverse(EncodeLE(v, NSBytes)) ELSE EncodeLE(v, NSBytes)

RECURSIVE DecodeBE(_, _)
\* The value of bytes read most significant first, above the value acc.
DecodeBE(bytes, acc) ==
    IF bytes = <<>> THEN acc ELSE DecodeBE(Tail(bytes), acc * 256 + bytes[1])

\* The NS that the bytes hold: two's complement, the top byte carries the sign.
DecodeNS(bytes, big) ==
    LET be == IF big THEN bytes ELSE Reverse(bytes)
    IN  DecodeBE(Tail(be), IF be[1] >= 128 THEN be[1] - 256 ELSE be[1])

\* The fields of the two buffer types, in order, with their sizes in bytes:
\* TStringDesc (lines 391-395) and TGenericSeq (lines 397-399).
Layout ==
    [TStringDesc |-> << <<"len", NSBytes>>, <<"space", NSBytes>>, <<"data", 1>> >>,
     TGenericSeq |-> << <<"len", NSBytes>>, <<"space", NSBytes>> >>]

BufferTypes == {"TStringDesc", "TGenericSeq"}

RECURSIVE OffsetIn(_, _)
\* The offset of field f in the field list fields; the fields have no padding.
OffsetIn(fields, f) ==
    IF fields[1][1] = f THEN 0 ELSE fields[1][2] + OffsetIn(Tail(fields), f)

OffsetOf(ty, f) == OffsetIn(Layout[ty], f)

\* #define GenericSeqSize sizeof(TGenericSeq)
GenericSeqSize == 2 * NSBytes

\* p->f for p of type ty* pointing at the region, f one of len and space.
Field(region, ty, f, big) ==
    DecodeNS(SubSeq(region, OffsetOf(ty, f) + 1, OffsetOf(ty, f) + NSBytes), big)

\* The bytes of the region from the data field on.
DataOf(region) == SubSeq(region, OffsetOf("TStringDesc", "data") + 1, Len(region))

Zeros(n) == [i \in 1..n |-> 0]

\* A literal whose capacity counts the terminator.
STRING_LITERAL_SpaceWithTerminator(str, length, big) ==
    EncodeNS(length, big) \o EncodeNS(length + 1, big)
      \o str \o Zeros(length + 1 - Len(str))

\* STRING_LITERAL(name, str, length): struct { NS len, space; NIM_CHAR
\* data[length + 1]; } name = {length, length, str}; the bytes of data that
\* str does not reach are zero.
STRING_LITERAL(str, length, big) ==
    EncodeNS(length, big) \o EncodeNS(length, big)
      \o str \o Zeros(length + 1 - Len(str))

\* zeroMem(a, size) is memset(a, 0, size), a at offset off of the region.
zeroMem(region, off, size) ==
    [i \in 1..Len(region) |-> IF i > off /\ i <= off + size THEN 0 ELSE region[i]]

RECURSIVE memcmp(_, _, _)
\* memcmp: the sign of the first difference among the first n bytes.
memcmp(a, b, n) ==
    IF n = 0 THEN 0
    ELSE IF a[1] # b[1] THEN (IF a[1] < b[1] THEN -1 ELSE 1)
    ELSE memcmp(Tail(a), Tail(b), n - 1)

RECURSIVE strncmp(_, _, _)
\* strncmp: as memcmp, but a terminator ends the comparison.
strncmp(a, b, n) ==
    IF n = 0 THEN 0
    ELSE IF a[1] # b[1] THEN (IF a[1] < b[1] THEN -1 ELSE 1)
    ELSE IF a[1] = 0 THEN 0
    ELSE strncmp(Tail(a), Tail(b), n - 1)

\* A comparison of C strings in place of a comparison of bytes.
equalMem_AsStrings(a, b, size) == strncmp(a, b, size) = 0

\* #define equalMem(a, b, size) (memcmp(a, b, size) == 0)
equalMem(a, b, size) == memcmp(a, b, size) = 0

\* The bytes of "hello" and "hullo".
Hello == <<104, 101, 108, 108, 111>>

Hullo == <<104, 117, 108, 108, 111>>

\* The byte values of the short regions: the terminator and 'e'.
Alphabet == {0, 101}

RECURSIVE RegionsOf(_)
\* The regions of exactly n bytes of Alphabet.
RegionsOf(n) ==
    IF n = 0 THEN {<<>>}
    ELSE {Append(r, c) : r \in RegionsOf(n - 1), c \in Alphabet}

Regions == UNION {RegionsOf(n) : n \in 0..MaxRegion} \cup {Hello, Hullo}

\* Texts of literals: no terminator inside.
Texts == {r \in Regions : \A i \in 1..Len(r) : r[i] # 0}

\* The field values a region that was never initialised is tried with.
GarbageVals == {-1, 0, 5, 258}

NoOp == [op |-> "none", cleared |-> FALSE, length |-> 0]

NoEq == [done |-> FALSE, a |-> <<>>, b |-> <<>>, n |-> 0, res |-> FALSE]

InitMem ==
    /\ buf = <<>>
    /\ bufKind = "none"
    /\ lastOp = NoOp
    /\ eq = NoEq

\* A declaration STRING_LITERAL(name, str, length); data[length + 1] must
\* hold the characters of str.
DeclareLiteral(str, length) ==
    /\ bufKind = "none"
    /\ Len(str) <= length + 1
    /\ buf' = STRING_LITERAL(str, length, bigEndian)
    /\ bufKind' = "literal"
    /\ lastOp' = [op |-> "STRING_LITERAL", cleared |-> FALSE, length |-> length]
    /\ UNCHANGED eq
    /\ UNCHANGED <<frameVars, floatVars, hdrVars>>

\* p = ALLOC_0(size), which is calloc(1, size): zero bytes, or no memory.
Alloc0(size, ok) ==
    /\ bufKind = "none"
    /\ buf' = IF ok THEN Zeros(size) ELSE <<>>
    /\ bufKind' = IF ok THEN "heap" ELSE "null"
    /\ lastOp' = [op |-> "ALLOC_0", cleared |-> ok /\ size >= GenericSeqSize, length |-> 0]
    /\ UNCHANGED eq
    /\ UNCHANGED <<frameVars, floatVars, hdrVars>>

\* A TStringDesc variable that was never initialised: any header.
DeclareRaw(l, sp) ==
    /\ bufKind = "none"
    /\ buf' = EncodeNS(l, bigEndian) \o EncodeNS(sp, bigEndian) \o <<117>>
    /\ bufKind' = "raw"
    /\ lastOp' = [op |-> "declare", cleared |-> FALSE, length |-> 0]
    /\ UNCHANGED eq
    /\ UNCHANGED <<frameVars, floatVars, hdrVars>>

\* zeroMem(p + off, size) on writable memory, within the region.
ZeroMem(off, size) ==
    /\ bufKind \in {"heap", "raw"}
    /\ ~eq.done
    /\ off + size <= Len(buf)
    /\ buf' = zeroMem(buf, off, size)
    /\ lastOp' = [op |-> "zeroMem", cleared |-> off = 0 /\ size >= GenericSeqSize,
                  length |-> 0]
    /\ UNCHANGED <<bufKind, eq>>
    /\ UNCHANGED <<frameVars, floatVars, hdrVars>>

\* equalMem(p->data, b, n); both regions hold n bytes.
EqualMem(b, n) ==
    /\ bufKind \in {"literal", "heap", "raw"}
    /\ ~eq.done
    /\ Len(buf) >= GenericSeqSize
    /\ n <= Len(DataOf(buf)) /\ n <= Len(b)
    /\ eq' = [done |-> TRUE, a |-> DataOf(buf), b |-> b, n |-> n,
              res |-> equalMem(DataOf(buf), b, n)]
    /\ UNCHANGED <<buf, bufKind, lastOp>>
    /\ UNCHANGED <<frameVars, floatVars, hdrVars>>

NextMem ==
    \/ \E str \in Texts : \E length \in 0..(Len(str) + 1) : DeclareLiteral(str, length)
    \/ \E size \in 0..(GenericSeqSize + MaxRegion) : \E ok \in BOOLEAN : Alloc0(size, ok)
    \/ \E l \in GarbageVals, sp \in GarbageVals : DeclareRaw(l, sp)
    \/ \E off \in 0..(GenericSeqSize + MaxRegion) :
          \E size \in 0..(GenericSeqSize + MaxRegion) : ZeroMem(off, size)
    \/ \E b \in Regions : \E n \in 0..5 : EqualMem(b, n)

(***************************************************************************)
(* The specifications: one per part; the other parts stay idle.            *)
(***************************************************************************)
FloatIdle == fx = [ip |-> 0, fp |-> 0] /\ bigEndian = FALSE /\ fres = 0 /\ fpc = "idle"

HdrIdle ==
    /\ cfg = [predef |-> {}, mathMacros |-> {}, dm |-> "ILP32"]
    /\ macros = [m \in MacroNames |-> <<>>]
    /\ typedefs = [t \in TypeNames |-> <<>>]
    /\ lrintImpl = [lrint |-> "none", lrintf |-> "none"]
    /\ errors = <<>>
    /\ hpc = 0

\* One call stack: the single-threaded target.
Init == InitFrames({1}) /\ FloatIdle /\ HdrIdle /\ InitMem

Next == NextFrames

Spec == Init /\ [][Next]_vars

\* Two call stacks that share the slot line 376 declares.
InitMT == InitFrames(Threads) /\ FloatIdle /\ HdrIdle /\ InitMem

SpecMT == InitMT /\ [][Next]_vars

\* The conversions of float64ToInt32.
InitF == InitFrames({1}) /\ InitFloat /\ HdrIdle /\ InitMem

SpecFloat == InitF /\ [][Convert]_vars

\* The header on every combination of the predicates of the calling
\* convention sections.
InitConv ==
    /\ InitFrames({1}) /\ FloatIdle /\ InitMem
    /\ InitHdr(Compilers \cup WindowsPreds, {}, {"ILP32"})

SpecConv == InitConv /\ [][NextHdr]_vars

\* The header on every compiler identity, alone or with others, and every
\* data model.
InitTypes ==
    /\ InitFrames({1}) /\ FloatIdle /\ InitMem
    /\ InitHdr(Compilers \cup {"__STD_VERSION__ >= 199901", "AMD64", "_M_AMD64"},
               {}, {"ILP32", "LP64", "LLP64"})
    /\ cfg.predef \cap Compilers # {}

SpecTypes == InitTypes /\ [][NextHdr]_vars

\* The header on every toolchain, with and without the lrint of C99.
InitConfig ==
    /\ InitFrames({1}) /\ FloatIdle /\ InitMem
    /\ InitHdr(Compilers \cup WindowsPreds \cup {"__WIN32__", "HAVE_LRINT", "HAVE_LRINTF"},
               {"lrint", "lrintf"}, {"ILP32", "LP32"})

SpecConfig == InitConfig /\ [][NextHdr]_vars

\* The buffers and the memory helpers, on both byte orders.
InitM ==
    /\ InitFrames({1}) /\ HdrIdle /\ InitMem
    /\ fx = [ip |-> 0, fp |-> 0] /\ bigEndian \in BOOLEAN /\ fres = 0 /\ fpc = "idle"

SpecMem == InitM /\ [][NextMem]_vars

(***************************************************************************)
(* Properties of the call-frame chain.                                     *)
(***************************************************************************)
RECURSIVE ChainFrom(_, _)
\* The frames met by following prev from fp, newest first; -1 marks a link
\* into storage that is no longer a frame, or a chain longer than memory.
ChainFrom(fp, fuel) ==
    IF fp = NIM_NIL THEN <<>>
    ELSE IF fuel = 0 \/ ~mem[fp].live THEN <<-1>>
    ELSE <<fp>> \o ChainFrom(mem[fp].prev, fuel - 1)

Chain(fp) == ChainFrom(fp, Cardinality(Addrs))

RECURSIVE LiveFrom(_, _)
\* The frames of the instrumented calls of thread t among its first i
\* activations that are linked and not yet unlinked, newest first.
LiveFrom(t, i) ==
    IF i = 0 THEN <<>>
    ELSE IF stack[t][i].instr /\ stack[t][i].pc = "linked"
         THEN <<Addr(t, i)>> \o LiveFrom(t, i - 1)
         ELSE LiveFrom(t, i - 1)

LiveFrames(t) == LiveFrom(t, Len(stack[t]))

\* C1: when a call returns, by whichever exit path and whatever calls were
\* nested in it, the slot holds the value V it held when the call was made;
\* with no call active the slot is empty.
C1_PushPopBalance ==
    /\ lastRet.valid => SlotOf(lastRet.t) = lastRet.V
    /\ stack[1] = <<>> => SlotOf(1) = NIM_NIL

\* A nested call that was made with a non-empty slot has returned by its
\* error path, after a call nested in it returned early.
C1_Witness ==
    /\ lastRet.valid /\ lastRet.kind = "error" /\ lastRet.V # NIM_NIL
    /\ Len(stack[1]) >= 1

\* C2: with one call stack, following prev from the slot visits exactly the
\* live frames, newest first, and ends at the empty value; the slot is empty
\* exactly when no frame is live, and is the innermost live frame otherwise.
C2_ChainIsLiveStack ==
    /\ Chain(SlotOf(1)) = LiveFrames(1)
    /\ (SlotOf(1) = NIM_NIL) <=> (LiveFrames(1) = <<>>)
    /\ \A i \in 1..Len(Chain(SlotOf(1))) : mem[Chain(SlotOf(1))[i]].live

\* Two live frames with a call without instrumentation between them.
C2_Witness ==
    /\ Len(LiveFrames(1)) = 2
    /\ Len(stack[1]) = 3
    /\ ~stack[1][2].instr

\* C4: with several threads, the slot of every thread holds the chain of the
\* live frames of that thread's own call stack, and a returned call leaves
\* the slot of its thread as it found it.
C4_PerThreadSlots ==
    /\ \A t \in active : Chain(SlotOf(t)) = LiveFrames(t)
    /\ lastRet.valid => SlotOf(lastRet.t) = lastRet.V

(***************************************************************************)
(* Properties of float64ToInt32.                                           *)
(***************************************************************************)
\* The inputs for which the 16.16 fixed-point value fits the 32-bit word:
\* -32768 <= x + 2^-17 < 32768.
InSafeRange(x) == FloorAfterFixed(x) >= -32768 /\ FloorAfterFixed(x) <= 32767

\* C3 as stated: within the safe range the result is the round-to-nearest-even
\* conversion of the input.
C3_RoundsToNearestEven ==
    (fpc = "done" /\ InSafeRange(fx)) => fres = RoundNearestEven(fx)

\* C3 as amended: within the safe range the result is floor(x + 2^-17), the
\* floor of the input rounded to 16.16 fixed point, on either byte order.
C3_FloorsFixedPoint ==
    (fpc = "done" /\ InSafeRange(fx)) => fres = FloorAfterFixed(fx)

\* The tie 1.5 has been converted on a big-endian target, to 1.
C3_Witness ==
    /\ fx = [ip |-> 1, fp |-> FracOne \div 2] /\ bigEndian
    /\ fpc = "done" /\ fres = 1 /\ RoundNearestEven(fx) = 2

(***************************************************************************)
(* Properties of the resolution of the header.                             *)
(***************************************************************************)
\* The macro that spells a function, and a function pointer, of each
\* calling convention.
FunctionMacro ==
    [Default |-> "N_NIMCALL", Cdecl |-> "N_CDECL", Stdcall |-> "N_STDCALL",
     Syscall |-> "N_SYSCALL", Fastcall |-> "N_FASTCALL", Safecall |-> "N_SAFECALL",
     Closure |-> "N_CLOSURE", NoConv |-> "N_NOCONV"]

PointerMacro ==
    [Default |-> "N_NIMCALL_PTR", Cdecl |-> "N_CDECL_PTR", Stdcall |-> "N_STDCALL_PTR",
     Syscall |-> "N_SYSCALL_PTR", Fastcall |-> "N_FASTCALL_PTR",
     Safecall |-> "N_SAFECALL_PTR", Closure |-> "N_CLOSURE_PTR",
     NoConv |-> "N_NOCONV_PTR"]

Conventions == DOMAIN FunctionMacro

LinkageMacros == {"N_LIB_EXPORT", "N_LIB_IMPORT"}

\* C5: on every combination of the predicates, no spelling of a convention or
\* of a linkage direction is ever defined twice, and when the header has been
\* read every convention has exactly one function spelling and one pointer
\* spelling, neither empty, and each linkage direction exactly one spelling.
C5_ResolverTotal ==
    /\ \A c \in Conventions :
         /\ Len(macros[FunctionMacro[c]]) <= 1
         /\ Len(macros[PointerMacro[c]]) <= 1
         /\ HdrDone => /\ Len(macros[FunctionMacro[c]]) = 1
                       /\ Len(macros[PointerMacro[c]]) = 1
                       /\ macros[FunctionMacro[c]][1] # ""
                       /\ macros[PointerMacro[c]][1] # ""
    /\ \A m \in LinkageMacros :
         /\ Len(macros[m]) <= 1
         /\ HdrDone => Len(macros[m]) = 1

\* The header has been read with every predicate defined at once.
C5_Witness == HdrDone /\ cfg.predef = Compilers \cup WindowsPreds

\* C6: where neither WIN32 nor _WIN32 is defined, the five conventions all
\* resolve to no modifier and a plain pointer, import to extern and export to
\* nothing.
C6_NonWindowsFallback ==
    (HdrDone /\ cfg.predef \cap WindowsPreds = {}) =>
       /\ \A c \in {"Cdecl", "Stdcall", "Syscall", "Fastcall", "Safecall"} :
            /\ macros[FunctionMacro[c]] = <<"rettype name">>
            /\ macros[PointerMacro[c]] = <<"rettype (*name)">>
       /\ macros["N_LIB_IMPORT"] = <<"extern">>
       /\ macros["N_LIB_EXPORT"] = <<"">>

\* The header has been read by a compiler with a fastcall, not on Windows.
C6_Witness ==
    /\ HdrDone /\ cfg.predef = {"__WATCOMC__"}
    /\ macros["N_NIMCALL"] = <<"rettype __fastcall name">>
    /\ macros["N_FASTCALL"] = <<"rettype name">>

\* The width of the type a name was defined as.
BitsOf(name) == TypeBits(typedefs[name][1], cfg.dm)

\* C9: on every compiler identity and data model NS and NU are as wide as a
\* pointer, and the fixed-width types have their 8, 16, 32 and 64 bits.
C9_WordIsPointerWide ==
    HdrDone =>
       /\ BitsOf("NS") = DataModels[cfg.dm].ptr
       /\ BitsOf("NU") = DataModels[cfg.dm].ptr
       /\ BitsOf("NS8") = 8 /\ BitsOf("NU8") = 8
       /\ BitsOf("NS16") = 16 /\ BitsOf("NU16") = 16
       /\ BitsOf("NS32") = 32 /\ BitsOf("NU32") = 32
       /\ BitsOf("NS64") = 64 /\ BitsOf("NU64") = 64

\* No compiler identity is defined.
Unrecognised == cfg.predef \cap Compilers = {}

\* The build has not announced lrint and lrintf.
LrintMissing == ~(Defined("HAVE_LRINT") /\ Defined("HAVE_LRINTF"))

\* The typedefs without <stdint.h> take int for a 32-bit type.
WidthUnsupported == DataModels[cfg.dm].int # 32 /\ ~Defined("HAVE_STDINT_H")

\* The branch of lines 187-196 is the one taken.
CastBranch ==
    /\ LrintMissing
    /\ \/ cfg.predef \cap {"WIN32", "_WIN32", "__WIN32__"} = {}
       \/ "__BORLANDC__" \in cfg.predef

\* C10 as stated: an unrecognised toolchain, an unsupported width or a
\* missing lrint ends the resolution of the header in a configuration error.
C10_FailureIsBuildError ==
    (HdrDone /\ (Unrecognised \/ WidthUnsupported \/ LrintMissing)) => errors # <<>>

\* C10 as amended: the header never issues a configuration error; an
\* unrecognised toolchain gets the default inline spelling and the default
\* typedefs, an int that is not 32 bits wide is taken for NS32 and NU32 all the
\* same, and a missing lrint or lrintf becomes a C cast unless math.h makes
\* it a macro.
C10_FallsBackSilently ==
    HdrDone =>
       /\ errors = <<>>
       /\ Unrecognised =>
            /\ macros["N_INLINE"] = <<"rettype __inline name">>
            /\ typedefs["NS32"] = <<"signed int">>
            /\ typedefs["NS64"] = <<"long long int">>
       /\ WidthUnsupported => BitsOf("NS32") # 32 /\ BitsOf("NU32") # 32
       /\ CastBranch =>
            /\ "lrint" \notin cfg.mathMacros =>
                 lrintImpl.lrint = "C cast" /\ macros["lrint"] = <<"((long int)(dbl))">>
            /\ "lrintf" \notin cfg.mathMacros =>
                 lrintImpl.lrintf = "C cast" /\ macros["lrintf"] = <<"((long int)(flt))">>

\* An unknown compiler with a 16-bit int and a math.h without lrint macros
\* has read the whole header.
C10_Witness ==
    /\ HdrDone /\ cfg = [predef |-> {}, mathMacros |-> {}, dm |-> "LP32"]
    /\ lrintImpl.lrint = "C cast"
    /\ errors = <<>>

(***************************************************************************)
(* Properties of the buffers and the memory helpers.                       *)
(***************************************************************************)
\* C7: read through either buffer type, a literal has len = space = length,
\* with length + 1 bytes of data; a header that ALLOC_0 returned or zeroMem
\* covered has len = space = 0; 0 <= len <= space holds of every literal, of
\* every cleared header and of allocated memory whatever is zeroed in it.
C7_HeaderInvariant ==
    Len(buf) >= GenericSeqSize =>
      \A ty \in BufferTypes :
        LET l  == Field(buf, ty, "len", bigEndian)
            sp == Field(buf, ty, "space", bigEndian)
        IN  /\ bufKind = "literal" =>
                 /\ l = lastOp.length /\ sp = lastOp.length
                 /\ Len(DataOf(buf)) = lastOp.length + 1
            /\ lastOp.cleared => l = 0 /\ sp = 0
            /\ (bufKind \in {"literal", "heap"} \/ lastOp.cleared) => 0 <= l /\ l <= sp

\* A variable that was never initialised has had its header, and no more,
\* cleared by zeroMem on a big-endian target; its data byte is as it was.
C7_Witness ==
    /\ bufKind = "raw" /\ lastOp.cleared /\ bigEndian
    /\ buf = Zeros(GenericSeqSize) \o <<117>>

\* C8: equalMem(a, b, n) is true exactly when the first n bytes of a and b
\* are the same, whatever follows them.
C8_EqualMemIffBytesEqual ==
    eq.done => (eq.res <=> \A i \in 1..eq.n : eq.a[i] = eq.b[i])

\* The 5 bytes of the data of the literal {5, 5, "hello"}, which its
\* terminator follows, have been compared with "hullo": not equal.
C8_Witness ==
    /\ eq.done /\ bufKind = "literal" /\ lastOp.length = 5
    /\ eq.a = Hello \o <<0>> /\ eq.b = Hullo /\ eq.n = 5
    /\ ~eq.res

====
